---- MODULE Spec2Model ----
(***************************************************************************)
(* Two-sided limit order book with epoch-based deferred reclamation.       *)
(*                                                                         *)
(* One matcher thread runs placeOrder, cancelOrder and                     *)
(* advanceEpochAndReclaim; one reader thread runs SnapshotActiveIter.      *)
(* Order records are the preallocated records of the OrderPool, named by   *)
(* the numbers 1..PoolCap; NULL is the nil pointer.                        *)
(***************************************************************************)
EXTENDS Integers, Sequences, FiniteSets, TLC

\* ------------------------------------------------------------------ bounds
MaxPrice == 2   \* limit prices offered by the caller are 1..MaxPrice
MaxQty   == 2   \* quantities offered by the caller are 1..MaxQty
MaxSeq   == 3   \* number of placements under Spec (seq runs 1..MaxSeq)
EpochSeq == 2   \* number of placements under SpecEpoch
MaxEpoch == 3   \* advanceEpochAndReclaim is called while globalEpoch < MaxEpoch
MaxSnaps == 1   \* number of snapshot walks the reader starts
SnapSeq == 3    \* number of placements under SpecSnap
SnapEpoch == 2  \* advanceEpochAndReclaim is called while globalEpoch < SnapEpoch under SpecSnap
PoolCap  == 3   \* NewOrderPool(cap)
RingBits == 1   \* SpecFull, SpecRing, SpecRingSeq: newRetireRing(2^RingBits)
FullSeq  == 4   \* number of placements under SpecFull (one more than the pool holds)
RingOps  == 4   \* number of handles the ring specifications enqueue
MaxHead  == 5   \* under SpecReclaim the reclaimer works while head, tail < MaxHead
TreeKeys == 5   \* SpecTree: the prices upserted and deleted are 1..TreeKeys
MaxGen   == 2   \* SpecTree: how many times one price is inserted anew

\* ------------------------------------------------------- program constants
RingCap == 4            \* newRetireRing(4): a power of two
AllF    == 2147483647   \* stands for ^uint64(0), the "no active reader" sentinel

NULL == 0
Orders == 1..PoolCap
Prices == 1..MaxPrice
Qtys   == 1..MaxQty
Sides  == {"Bid", "Ask"}
Types  == {"Limit", "Market", "IOC", "FOK", "PostOnly"}
SeedEpochs == {1}       \* values the caller stores into globalEpoch at start-up

\* The zero value of an Order record (new(Order)): Bid, Limit and Active are the
\* iota-zero members of their enumerations.
ZeroOrder ==
  [ID |-> 0, Side |-> "Bid", Type |-> "Limit", Price |-> 0, Qty |-> 0,
   Filled |-> 0, SeqID |-> 0, Status |-> "Active", next |-> NULL, prev |-> NULL,
   retireEpoch |-> 0]

VARIABLES
  ord,          \* ord[o]: the fields of order record o
  pool,         \* OrderPool: [store, top]
  rq,           \* retireRing: [buf, mask, head, tail]
  Bids,         \* bid index: price -> PriceLevel, for the prices present
  Asks,         \* ask index: price -> PriceLevel, for the prices present
  LastSeq,      \* OrderBook.LastSeq
  globalEpoch,  \* the global epoch counter
  reader,       \* Reader.epoch of the one registered reader
  mt,           \* matcher thread: program position and locals
  rd,           \* reader thread: program position and locals
  halted,       \* "none", or the message of the panic that stopped the process
  ret,          \* history: the operation that returned last and its handle
  pre,          \* history: the state when the matcher's last operation was called
  enqEpoch,     \* history: globalEpoch when the order was last retired to the ring
  qty0,         \* history: the quantity each order was placed with
  pr,           \* ring producer goroutine: position and locals of Enqueue
  co,           \* ring consumer goroutine: position and locals of Dequeue
  enqd,         \* history: the handles Enqueue accepted, in order
  deqd,         \* history: the non-nil handles Dequeue returned, in order
  tree,         \* an RBTree at node level: [root, size, node]
  want          \* history: price -> level created by the upsert that inserted it

\* The state of the component models (ring goroutines, node-level tree).
subVars == <<pr, co, enqd, deqd, tree, want>>

vars == <<ord, pool, rq, Bids, Asks, LastSeq, globalEpoch, reader, mt, rd,
          halted, ret, pre, enqEpoch, qty0, subVars>>

\* ----------------------------------------------------------------- helpers
SetMin(S) == CHOOSE x \in S : \A y \in S : x <= y
SetMax(S) == CHOOSE x \in S : \A y \in S : x >= y

RECURSIVE BitAnd(_, _)
BitAnd(a, b) ==
  IF a = 0 \/ b = 0 THEN 0
  ELSE (a % 2) * (b % 2) + 2 * BitAnd(a \div 2, b \div 2)

minBad(a, b) == b
min(a, b) == IF a < b THEN a ELSE b

RECURSIVE Pow2(_)
Pow2(n) == IF n = 0 THEN 1 ELSE 2 * Pow2(n - 1)

IsPrefix(s, t) == Len(s) <= Len(t) /\ \A i \in 1..Len(s) : s[i] = t[i]

\* -------------------------------------------------------------- retireRing
newRetireRing(pow2) ==
  [buf |-> [i \in 0..(pow2 - 1) |-> NULL], mask |-> pow2 - 1, head |-> 0, tail |-> 0]

EnqueueBad(q, o) ==
  LET h == q.head
      t == q.tail
  IN IF h - t = Cardinality(DOMAIN q.buf) - 1
     THEN [q |-> q, ok |-> FALSE]
     ELSE [q |-> [q EXCEPT !.buf[BitAnd(h, q.mask)] = o, !.head = h + 1], ok |-> TRUE]

\* Enqueue returns the ring and the boolean result.
Enqueue(q, o) ==
  LET h == q.head
      t == q.tail
  IN IF h - t = Cardinality(DOMAIN q.buf)
     THEN [q |-> q, ok |-> FALSE]
     ELSE [q |-> [q EXCEPT !.buf[BitAnd(h, q.mask)] = o, !.head = h + 1], ok |-> TRUE]

\* Dequeue returns the ring and the handle (NULL when empty).
Dequeue(q) ==
  LET t == q.tail
      h == q.head
  IN IF t = h
     THEN [q |-> q, o |-> NULL]
     ELSE [q |-> [q EXCEPT !.buf[BitAnd(t, q.mask)] = NULL, !.tail = t + 1],
           o |-> q.buf[BitAnd(t, q.mask)]]

\* The handles held in the ring, oldest first.
RECURSIVE RingSeqFrom(_, _)
RingSeqFrom(q, t) ==
  IF t >= q.head THEN <<>> ELSE <<q.buf[BitAnd(t, q.mask)]>> \o RingSeqFrom(q, t + 1)
RingSeq(q) == RingSeqFrom(q, q.tail)
InRing(o) == \E i \in 1..Len(RingSeq(rq)) : RingSeq(rq)[i] = o

\* --------------------------------------------------------------- OrderPool
NewOrderPool(cap) == [store |-> [i \in 0..(cap - 1) |-> i + 1], top |-> cap]

GetBad(p, os) ==
  IF p.top = 0
  THEN [pool |-> p, ord |-> os, o |-> NULL]
  ELSE [pool |-> [p EXCEPT !.top = p.top - 1],
        ord  |-> [os EXCEPT ![p.store[p.top - 1]].Status = "Active"],
        o    |-> p.store[p.top - 1]]

\* Get returns the pool, the order records and the handle (NULL when exhausted).
Get(p, os) ==
  IF p.top = 0
  THEN [pool |-> p, ord |-> os, o |-> NULL]
  ELSE LET o == p.store[p.top - 1]
       IN [pool |-> [p EXCEPT !.top = p.top - 1],
           ord  |-> [os EXCEPT ![o] = [ZeroOrder EXCEPT !.Status = "Active"]],
           o    |-> o]

Put(p, os, o) ==
  IF p.top = Cardinality(DOMAIN p.store)
  THEN [pool |-> p, ord |-> os]
  ELSE [pool |-> [p EXCEPT !.store[p.top] = o, !.top = p.top + 1],
        ord  |-> [os EXCEPT ![o].next = NULL, ![o].prev = NULL,
                            ![o].Status = "Inactive"]]

InPool(o) == \E i \in 0..(pool.top - 1) : pool.store[i] = o

\* -------------------------------------------------------------- PriceLevel
NewLevel(price) == [Price |-> price, head |-> NULL, tail |-> NULL, TotalQty |-> 0]

lvlEnqueueNoPrev(os, lvl, o) ==
  LET os1 == IF lvl.tail # NULL THEN [os EXCEPT ![lvl.tail].next = o] ELSE os
      l1  == IF lvl.tail # NULL THEN lvl ELSE [lvl EXCEPT !.head = o]
  IN [ord |-> os1,
      lvl |-> [l1 EXCEPT !.tail = o, !.TotalQty = l1.TotalQty + os1[o].Qty]]

\* PriceLevel.Enqueue: returns the order records and the level.
lvlEnqueue(os, lvl, o) ==
  LET os1 == IF lvl.tail # NULL
             THEN [os EXCEPT ![lvl.tail].next = o, ![o].prev = lvl.tail]
             ELSE os
      l1  == IF lvl.tail # NULL THEN lvl ELSE [lvl EXCEPT !.head = o]
  IN [ord |-> os1,
      lvl |-> [l1 EXCEPT !.tail = o, !.TotalQty = l1.TotalQty + os1[o].Qty]]

unlinkBad(os, lvl, o) ==
  [ord |-> os, lvl |-> [lvl EXCEPT !.TotalQty = lvl.TotalQty - os[o].Qty]]

unlinkAlreadyInactive(os, lvl, o) ==
  LET os1 == IF os[o].prev # NULL
             THEN [os EXCEPT ![os[o].prev].next = os[o].next]
             ELSE os
      l1  == IF os[o].prev # NULL THEN lvl ELSE [lvl EXCEPT !.head = os[o].next]
      os2 == IF os1[o].next # NULL
             THEN [os1 EXCEPT ![os1[o].next].prev = os1[o].prev]
             ELSE os1
      l2  == IF os1[o].next # NULL THEN l1 ELSE [l1 EXCEPT !.tail = os1[o].prev]
      l3  == [l2 EXCEPT !.TotalQty = l2.TotalQty - os2[o].Qty]
  IN [ord |-> [os2 EXCEPT ![o].next = NULL, ![o].prev = NULL], lvl |-> l3]

\* The orders linked in a level, head first (following next pointers).
RECURSIVE ChainFrom(_, _, _)
ChainFrom(os, n, fuel) ==
  IF n = NULL \/ fuel = 0 THEN <<>> ELSE <<n>> \o ChainFrom(os, os[n].next, fuel - 1)
Chain(os, lvl) == ChainFrom(os, lvl.head, PoolCap)

\* ------------------------------------------------------------------ RBTree
\* The index is modelled by its contents: the map from the prices present to
\* their levels. NilLevel is the nil *PriceLevel.
NilLevel == [Price |-> -1, head |-> NULL, tail |-> NULL, TotalQty |-> 0]
NewRBTree == [p \in {} |-> NilLevel]

FindLevel(t, price) == IF price \in DOMAIN t THEN t[price] ELSE NilLevel

\* UpsertLevel returns the index; the level it returns is the one at price.
UpsertLevel(t, price) ==
  IF price \in DOMAIN t THEN t
  ELSE [p \in DOMAIN t \cup {price} |-> IF p = price THEN NewLevel(price) ELSE t[p]]

DeleteLevelKeep(t, price) == t
DeleteLevel(t, price) ==
  IF price \in DOMAIN t THEN [p \in DOMAIN t \ {price} |-> t[p]] ELSE t

MinLevelBad(t) == IF DOMAIN t = {} THEN NilLevel ELSE t[SetMax(DOMAIN t)]
MinLevel(t) == IF DOMAIN t = {} THEN NilLevel ELSE t[SetMin(DOMAIN t)]
MaxLevel(t) == IF DOMAIN t = {} THEN NilLevel ELSE t[SetMax(DOMAIN t)]

\* ------------------------------------------------- RBTree, node by node
\* The same index with its nodes: node[n] is the node allocated for price n
\* (at most one node per price is in the tree at a time), node[TNil] is the
\* sentinel. A level is named by <<price, generation>>.
TNil    == 0            \* the sentinel t.nil
GoNil   == -1           \* a nil *node: the links of the sentinel itself
NoLevel == <<0, 0>>     \* a nil *PriceLevel
Keys    == 1..TreeKeys

Sentinel == [key |-> 0, level |-> NoLevel, color |-> "black",
             left |-> GoNil, right |-> GoNil, parent |-> GoNil]

NewTree == [root |-> TNil, size |-> 0, node |-> [n \in 0..TreeKeys |-> Sentinel]]

\* One write of field f of node n.
SetF(T, n, f, v) == [T EXCEPT !.node[n][f] = v]

RECURSIVE searchFrom(_, _, _)
searchFrom(T, n, price) ==
  IF n = TNil THEN TNil
  ELSE IF price < T.node[n].key THEN searchFrom(T, T.node[n].left, price)
  ELSE IF price > T.node[n].key THEN searchFrom(T, T.node[n].right, price)
  ELSE n
searchNode(T, price) == searchFrom(T, T.root, price)

rbFindLevel(T, price) ==
  LET n == searchFrom(T, T.root, price)
  IN IF n = TNil THEN NoLevel ELSE T.node[n].level

minNodeBad(T, n) == n
RECURSIVE minNode(_, _)
minNode(T, n) ==
  IF n = TNil THEN TNil
  ELSE IF T.node[n].left # TNil THEN minNode(T, T.node[n].left) ELSE n

RECURSIVE maxNode(_, _)
maxNode(T, n) ==
  IF n = TNil THEN TNil
  ELSE IF T.node[n].right # TNil THEN maxNode(T, T.node[n].right) ELSE n

rbMinLevel(T) ==
  LET n == minNode(T, T.root) IN IF n = TNil THEN NoLevel ELSE T.node[n].level
rbMaxLevel(T) ==
  LET n == maxNode(T, T.root) IN IF n = TNil THEN NoLevel ELSE T.node[n].level

\* In-order successor: the climb through the parents, then the whole of next.
RECURSIVE climbNext(_, _, _)
climbNext(T, n, p) ==
  IF p # TNil /\ n = T.node[p].right THEN climbNext(T, p, T.node[p].parent) ELSE p
next(T, n) ==
  IF T.node[n].right # TNil THEN minNode(T, T.node[n].right)
  ELSE climbNext(T, n, T.node[n].parent)

\* ForEachAscending with a callback that always continues: the levels in the
\* order they are handed to it (at most one more than there are prices).
RECURSIVE walkAscending(_, _, _)
walkAscending(T, n, fuel) ==
  IF n = TNil \/ fuel = 0 THEN <<>>
  ELSE <<T.node[n].level>> \o walkAscending(T, next(T, n), fuel - 1)
ForEachAscending(T) == walkAscending(T, minNode(T, T.root), TreeKeys + 1)

\* Sequencing: the statements F that follow run on the tree v the statement
\* before them has left.
Then(v, F(_)) == F(v)

leftRotate(T, x) ==
  LET y == T.node[x].right
  IN Then(SetF(T, x, "right", T.node[y].left), LAMBDA T1 :
     Then(IF T1.node[y].left # TNil
          THEN SetF(T1, T1.node[y].left, "parent", x) ELSE T1, LAMBDA T2 :
     Then(SetF(T2, y, "parent", T2.node[x].parent), LAMBDA T3 :
     Then(IF T3.node[x].parent = TNil THEN [T3 EXCEPT !.root = y]
          ELSE IF x = T3.node[T3.node[x].parent].left
               THEN SetF(T3, T3.node[x].parent, "left", y)
               ELSE SetF(T3, T3.node[x].parent, "right", y), LAMBDA T4 :
     Then(SetF(T4, y, "left", x), LAMBDA T5 :
     SetF(T5, x, "parent", y))))))

rightRotate(T, y) ==
  LET x == T.node[y].left
  IN Then(SetF(T, y, "left", T.node[x].right), LAMBDA T1 :
     Then(IF T1.node[x].right # TNil
          THEN SetF(T1, T1.node[x].right, "parent", y) ELSE T1, LAMBDA T2 :
     Then(SetF(T2, x, "parent", T2.node[y].parent), LAMBDA T3 :
     Then(IF T3.node[y].parent = TNil THEN [T3 EXCEPT !.root = x]
          ELSE IF y = T3.node[T3.node[y].parent].right
               THEN SetF(T3, T3.node[y].parent, "right", x)
               ELSE SetF(T3, T3.node[y].parent, "left", x), LAMBDA T4 :
     Then(SetF(T4, x, "right", y), LAMBDA T5 :
     SetF(T5, y, "parent", x))))))

\* The three recolourings of insertFixup's "uncle is red" case.
recolour(T, p, y, g) ==
  SetF(SetF(SetF(T, p, "color", "black"), y, "color", "black"), g, "color", "red")

\* z.parent.color = black; z.parent.parent.color = red
paintUp(T, z) ==
  Then(SetF(T, T.node[z].parent, "color", "black"), LAMBDA T1 :
  SetF(T1, T1.node[T1.node[z].parent].parent, "color", "red"))

RECURSIVE insertFixup(_, _)
insertFixup(T, z) ==
  LET p == T.node[z].parent
      g == T.node[p].parent
  IN IF T.node[p].color # "red" THEN SetF(T, T.root, "color", "black")
     ELSE IF p = T.node[g].left
     THEN LET y == T.node[g].right
          IN IF T.node[y].color = "red"
             THEN insertFixup(recolour(T, p, y, g), g)
             ELSE IF z = T.node[p].right
                  THEN Then(paintUp(leftRotate(T, p), p), LAMBDA T3 :
                       insertFixup(rightRotate(T3, T3.node[T3.node[p].parent].parent), p))
                  ELSE Then(paintUp(T, z), LAMBDA T3 :
                       insertFixup(rightRotate(T3, T3.node[T3.node[z].parent].parent), z))
     ELSE LET y == T.node[g].left
          IN IF T.node[y].color = "red"
             THEN insertFixup(recolour(T, p, y, g), g)
             ELSE IF z = T.node[p].left
                  THEN Then(paintUp(rightRotate(T, p), p), LAMBDA T3 :
                       insertFixup(leftRotate(T3, T3.node[T3.node[p].parent].parent), p))
                  ELSE Then(paintUp(T, z), LAMBDA T3 :
                       insertFixup(leftRotate(T3, T3.node[T3.node[z].parent].parent), z))

\* The search loop of UpsertLevel: the last node visited and the node found.
RECURSIVE upsertSearch(_, _, _, _)
upsertSearch(T, y, x, price) ==
  IF x = TNil THEN [y |-> y, found |-> TNil]
  ELSE IF price < T.node[x].key THEN upsertSearch(T, x, T.node[x].left, price)
  ELSE IF price > T.node[x].key THEN upsertSearch(T, x, T.node[x].right, price)
  ELSE [y |-> y, found |-> x]

\* UpsertLevel once the search has ended at y without finding the price:
\* the new node z, its link from y, insertFixup, size++.
insertAt(T, y, price, pl) ==
  Then([T EXCEPT !.node[price] =
          [key |-> price, level |-> pl, color |-> "red",
           left |-> TNil, right |-> TNil, parent |-> y]], LAMBDA T1 :
  Then(IF y = TNil THEN [T1 EXCEPT !.root = price]
       ELSE IF price < T1.node[y].key THEN SetF(T1, y, "left", price)
       ELSE SetF(T1, y, "right", price), LAMBDA T2 :
  Then(insertFixup(T2, price), LAMBDA T3 :
  [T3 EXCEPT !.size = @ + 1])))

\* UpsertLevel; pl is the level it allocates when the price is missing.
rbUpsertLevel(T, price, pl) ==
  Then(upsertSearch(T, TNil, T.root, price), LAMBDA s :
  IF s.found # TNil THEN T ELSE insertAt(T, s.y, price, pl))

\* The level UpsertLevel returns.
rbUpsertResult(T, price, pl) ==
  Then(upsertSearch(T, TNil, T.root, price), LAMBDA s :
  IF s.found # TNil THEN T.node[s.found].level ELSE pl)

\* ---- UpsertLevel write by write: the trail of trees, one after each store
\* (the recolourings of one case count as one entry); the last is current.
Cur(tr) == tr[Len(tr)]

\* leftRotate(x), its stores one by one.
leftRotateTrail(tr, x) ==
  LET y == Cur(tr).node[x].right
  IN Then(SetF(Cur(tr), x, "right", Cur(tr).node[y].left), LAMBDA T1 :
     Then(IF T1.node[y].left # TNil
          THEN SetF(T1, T1.node[y].left, "parent", x) ELSE T1, LAMBDA T2 :
     Then(SetF(T2, y, "parent", T2.node[x].parent), LAMBDA T3 :
     Then(IF T3.node[x].parent = TNil THEN [T3 EXCEPT !.root = y]
          ELSE IF x = T3.node[T3.node[x].parent].left
               THEN SetF(T3, T3.node[x].parent, "left", y)
               ELSE SetF(T3, T3.node[x].parent, "right", y), LAMBDA T4 :
     Then(SetF(T4, y, "left", x), LAMBDA T5 :
     tr \o <<T1, T2, T3, T4, T5, SetF(T5, x, "parent", y)>>)))))

\* rightRotate(y), its stores one by one.
rightRotateTrail(tr, y) ==
  LET x == Cur(tr).node[y].left
  IN Then(SetF(Cur(tr), y, "left", Cur(tr).node[x].right), LAMBDA T1 :
     Then(IF T1.node[x].right # TNil
          THEN SetF(T1, T1.node[x].right, "parent", y) ELSE T1, LAMBDA T2 :
     Then(SetF(T2, x, "parent", T2.node[y].parent), LAMBDA T3 :
     Then(IF T3.node[y].parent = TNil THEN [T3 EXCEPT !.root = x]
          ELSE IF y = T3.node[T3.node[y].parent].right
               THEN SetF(T3, T3.node[y].parent, "right", x)
               ELSE SetF(T3, T3.node[y].parent, "left", x), LAMBDA T4 :
     Then(SetF(T4, x, "right", y), LAMBDA T5 :
     tr \o <<T1, T2, T3, T4, T5, SetF(T5, y, "parent", x)>>)))))

\* The node two parents above n.
grandparent(T, n) == T.node[T.node[n].parent].parent

\* z.parent.color = black; z.parent.parent.color = red; then the rotation
\* of the grandparent.
paintUpTrail(tr, z) == Append(tr, paintUp(Cur(tr), z))

RECURSIVE insertFixupTrail(_, _)
insertFixupTrail(tr, z) ==
  LET T == Cur(tr)
      p == T.node[z].parent
      g == T.node[p].parent
  IN IF T.node[p].color # "red" THEN Append(tr, SetF(T, T.root, "color", "black"))
     ELSE IF p = T.node[g].left
     THEN LET y == T.node[g].right
          IN IF T.node[y].color = "red"
             THEN insertFixupTrail(Append(tr, recolour(T, p, y, g)), g)
             ELSE IF z = T.node[p].right
                  THEN Then(paintUpTrail(leftRotateTrail(tr, p), p), LAMBDA t3 :
                       insertFixupTrail(rightRotateTrail(t3, grandparent(Cur(t3), p)), p))
                  ELSE Then(paintUpTrail(tr, z), LAMBDA t3 :
                       insertFixupTrail(rightRotateTrail(t3, grandparent(Cur(t3), z)), z))
     ELSE LET y == T.node[g].left
          IN IF T.node[y].color = "red"
             THEN insertFixupTrail(Append(tr, recolour(T, p, y, g)), g)
             ELSE IF z = T.node[p].left
                  THEN Then(paintUpTrail(rightRotateTrail(tr, p), p), LAMBDA t3 :
                       insertFixupTrail(leftRotateTrail(t3, grandparent(Cur(t3), p)), p))
                  ELSE Then(paintUpTrail(tr, z), LAMBDA t3 :
                       insertFixupTrail(leftRotateTrail(t3, grandparent(Cur(t3), z)), z))

\* UpsertLevel of a missing price from the end of its search at y.
insertAtTrail(T, y, price, pl) ==
  Then([T EXCEPT !.node[price] =
          [key |-> price, level |-> pl, color |-> "red",
           left |-> TNil, right |-> TNil, parent |-> y]], LAMBDA T1 :
  Then(IF y = TNil THEN [T1 EXCEPT !.root = price]
       ELSE IF price < T1.node[y].key THEN SetF(T1, y, "left", price)
       ELSE SetF(T1, y, "right", price), LAMBDA T2 :
  Then(insertFixupTrail(<<T1, T2>>, price), LAMBDA t3 :
  Append(t3, [Cur(t3) EXCEPT !.size = @ + 1]))))

\* UpsertLevel: every tree a concurrent reader can find during the call.
rbUpsertTrail(T, price, pl) ==
  Then(upsertSearch(T, TNil, T.root, price), LAMBDA s :
  IF s.found # TNil THEN <<T>> ELSE insertAtTrail(T, s.y, price, pl))

\* The nodes a descent from n through left and right children comes to.
RECURSIVE Below(_, _, _)
Below(T, n, fuel) ==
  IF n = TNil \/ n = GoNil \/ fuel = 0 THEN {}
  ELSE {n} \cup Below(T, T.node[n].left, fuel - 1) \cup Below(T, T.node[n].right, fuel - 1)
FromRoot(T) == Below(T, T.root, TreeKeys)

transplant(T, u, v) ==
  Then(IF T.node[u].parent = TNil THEN [T EXCEPT !.root = v]
       ELSE IF u = T.node[T.node[u].parent].left
            THEN SetF(T, T.node[u].parent, "left", v)
            ELSE SetF(T, T.node[u].parent, "right", v), LAMBDA T1 :
  SetF(T1, v, "parent", T1.node[u].parent))

\* deleteFixup, x a left child, case 1: the sibling w is red.
fixLeft1(T, x) ==
  Then(SetF(T, T.node[T.node[x].parent].right, "color", "black"), LAMBDA T1 :
  Then(SetF(T1, T1.node[x].parent, "color", "red"), LAMBDA T2 :
  leftRotate(T2, T2.node[x].parent)))

\* case 3: w.left.color = black; w.color = red; rightRotate(w)
fixLeft3(T, w) ==
  Then(SetF(T, T.node[w].left, "color", "black"), LAMBDA T1 :
  Then(SetF(T1, w, "color", "red"), LAMBDA T2 :
  rightRotate(T2, w)))

\* case 4: w takes the parent's colour, parent and w.right turn black,
\* leftRotate(x.parent)
fixLeft4(T, x, w) ==
  Then(SetF(T, w, "color", T.node[T.node[x].parent].color), LAMBDA T1 :
  Then(SetF(T1, T1.node[x].parent, "color", "black"), LAMBDA T2 :
  Then(SetF(T2, T2.node[w].right, "color", "black"), LAMBDA T3 :
  leftRotate(T3, T3.node[x].parent))))

\* The mirror cases, x a right child.
fixRight1(T, x) ==
  Then(SetF(T, T.node[T.node[x].parent].left, "color", "black"), LAMBDA T1 :
  Then(SetF(T1, T1.node[x].parent, "color", "red"), LAMBDA T2 :
  rightRotate(T2, T2.node[x].parent)))

fixRight3(T, w) ==
  Then(SetF(T, T.node[w].right, "color", "black"), LAMBDA T1 :
  Then(SetF(T1, w, "color", "red"), LAMBDA T2 :
  leftRotate(T2, w)))

fixRight4(T, x, w) ==
  Then(SetF(T, w, "color", T.node[T.node[x].parent].color), LAMBDA T1 :
  Then(SetF(T1, T1.node[x].parent, "color", "black"), LAMBDA T2 :
  Then(SetF(T2, T2.node[w].left, "color", "black"), LAMBDA T3 :
  rightRotate(T3, T3.node[x].parent))))

RECURSIVE deleteFixup(_, _)
deleteFixup(T, x) ==
  IF x = T.root \/ T.node[x].color # "black" THEN SetF(T, x, "color", "black")
  ELSE IF x = T.node[T.node[x].parent].left
  THEN Then(IF T.node[T.node[T.node[x].parent].right].color = "red"
            THEN fixLeft1(T, x) ELSE T, LAMBDA T1 :
       Then(T1.node[T1.node[x].parent].right, LAMBDA w :
       IF /\ T1.node[T1.node[w].left].color = "black"
          /\ T1.node[T1.node[w].right].color = "black"
       THEN deleteFixup(SetF(T1, w, "color", "red"), T1.node[x].parent)
       ELSE Then(IF T1.node[T1.node[w].right].color = "black"
                 THEN fixLeft3(T1, w) ELSE T1, LAMBDA T2 :
            Then(fixLeft4(T2, x, T2.node[T2.node[x].parent].right), LAMBDA T3 :
            deleteFixup(T3, T3.root)))))
  ELSE Then(IF T.node[T.node[T.node[x].parent].left].color = "red"
            THEN fixRight1(T, x) ELSE T, LAMBDA T1 :
       Then(T1.node[T1.node[x].parent].left, LAMBDA w :
       IF /\ T1.node[T1.node[w].right].color = "black"
          /\ T1.node[T1.node[w].left].color = "black"
       THEN deleteFixup(SetF(T1, w, "color", "red"), T1.node[x].parent)
       ELSE Then(IF T1.node[T1.node[w].left].color = "black"
                 THEN fixRight3(T1, w) ELSE T1, LAMBDA T2 :
            Then(fixRight4(T2, x, T2.node[T2.node[x].parent].left), LAMBDA T3 :
            deleteFixup(T3, T3.root)))))

\* deleteNode when z has both children: y is z's successor, x is y.right.
spliceSuccessor(T, z, y, x) ==
  Then(IF T.node[y].parent = z THEN SetF(T, x, "parent", y)
       ELSE Then(transplant(T, y, T.node[y].right), LAMBDA A :
            Then(SetF(A, y, "right", A.node[z].right), LAMBDA B :
            SetF(B, B.node[y].right, "parent", y))), LAMBDA T1 :
  Then(transplant(T1, z, y), LAMBDA T2 :
  Then(SetF(T2, y, "left", T2.node[z].left), LAMBDA T3 :
  Then(SetF(T3, T3.node[y].left, "parent", y), LAMBDA T4 :
  SetF(T4, y, "color", T4.node[z].color)))))

\* The closing test of deleteNode: if yOrigColor == black { deleteFixup(x) }
fixIfBlack(T, yOrigColor, x) ==
  IF yOrigColor = "black" THEN deleteFixup(T, x) ELSE T

deleteNode(T, z) ==
  IF T.node[z].left = TNil
  THEN fixIfBlack(transplant(T, z, T.node[z].right), T.node[z].color, T.node[z].right)
  ELSE IF T.node[z].right = TNil
  THEN fixIfBlack(transplant(T, z, T.node[z].left), T.node[z].color, T.node[z].left)
  ELSE Then(minNode(T, T.node[z].right), LAMBDA y :
       fixIfBlack(spliceSuccessor(T, z, y, T.node[y].right),
                  T.node[y].color, T.node[y].right))

\* DeleteLevel; the node removed is garbage afterwards and its cell is cleared.
rbDeleteLevel(T, price) ==
  Then(searchNode(T, price), LAMBDA z :
  IF z = TNil THEN T
  ELSE Then(deleteNode(T, z), LAMBDA T1 :
       [T1 EXCEPT !.size = @ - 1, !.node[z] = Sentinel]))

\* Every order linked in some level of either index.
LinkedIn(os, t) == UNION {{Chain(os, t[p])[i] : i \in 1..Len(Chain(os, t[p]))} : p \in DOMAIN t}
Linked == LinkedIn(ord, Bids) \cup LinkedIn(ord, Asks)

\* ------------------------------------------------------------ epoch registry
RECURSIVE minReaderEpochFrom(_, _, _)
minReaderEpochFrom(rs, i, m) ==
  IF i > Len(rs) THEN m
  ELSE LET e == rs[i]
       IN minReaderEpochFrom(rs, i + 1, IF e # 0 /\ e < m THEN e ELSE m)
minReaderEpochBad(rs) == minReaderEpochFrom(rs, 1, 0)
minReaderEpoch(rs) == minReaderEpochFrom(rs, 1, AllF)

\* --------------------------------------------------------------- OrderBook
\* checkLiquidity: ForEachAscending / ForEachDescending with the early stops.
RECURSIVE liquidityAscBad(_, _, _, _, _)
liquidityAscBad(t, keys, limitPrice, desired, available) ==
  IF keys = {} THEN available
  ELSE LET lvl == t[SetMin(keys)]
       IN IF lvl.Price > limitPrice THEN available
          ELSE IF available + lvl.TotalQty >= desired THEN available
          ELSE liquidityAscBad(t, keys \ {SetMin(keys)}, limitPrice, desired,
                               available + lvl.TotalQty)

RECURSIVE liquidityAsc(_, _, _, _, _)
liquidityAsc(t, keys, limitPrice, desired, available) ==
  IF keys = {} THEN available
  ELSE LET lvl == t[SetMin(keys)]
       IN IF lvl.Price > limitPrice THEN available
          ELSE IF available + lvl.TotalQty >= desired THEN available + lvl.TotalQty
          ELSE liquidityAsc(t, keys \ {SetMin(keys)}, limitPrice, desired,
                            available + lvl.TotalQty)

RECURSIVE liquidityDesc(_, _, _, _, _)
liquidityDesc(t, keys, limitPrice, desired, available) ==
  IF keys = {} THEN available
  ELSE LET lvl == t[SetMax(keys)]
       IN IF lvl.Price < limitPrice THEN available
          ELSE IF available + lvl.TotalQty >= desired THEN available + lvl.TotalQty
          ELSE liquidityDesc(t, keys \ {SetMax(keys)}, limitPrice, desired,
                             available + lvl.TotalQty)

checkLiquidity(side, limitPrice, desired) ==
  IF side = "Bid"
  THEN liquidityAsc(Asks, DOMAIN Asks, limitPrice, desired, 0)
  ELSE liquidityDesc(Bids, DOMAIN Bids, limitPrice, desired, 0)

\* The best opposite level of an incoming order of the given side.
bestOpposite(bids, asks, side) == IF side = "Bid" THEN MinLevel(asks) ELSE MaxLevel(bids)

\* The break condition of the matching loop for incoming order record o.
breaksBad(o, best) ==
  \/ best = NilLevel
  \/ /\ o.Type # "Market"
     /\ IF o.Side = "Bid" THEN best.Price >= o.Price ELSE best.Price <= o.Price
breaksNoLimit(o, best) == best = NilLevel
breaks(o, best) ==
  \/ best = NilLevel
  \/ /\ o.Type # "Market"
     /\ IF o.Side = "Bid" THEN best.Price > o.Price ELSE best.Price < o.Price

\* OrderBook.enqueue: rest order o in its own side's level.
enqueue(s, o) ==
  LET side == s.ord[o].Side
      t0   == IF side = "Bid" THEN s.Bids ELSE s.Asks
      t1   == UpsertLevel(t0, s.ord[o].Price)
      e    == lvlEnqueue(s.ord, t1[s.ord[o].Price], o)
      t2   == [t1 EXCEPT ![s.ord[o].Price] = e.lvl]
  IN [s EXCEPT !.ord = e.ord,
               !.Bids = IF side = "Bid" THEN t2 ELSE s.Bids,
               !.Asks = IF side = "Bid" THEN s.Asks ELSE t2]

cancelOrderNoMark(s, price, o, side) ==
  LET os1 == [s.ord EXCEPT ![o].retireEpoch = globalEpoch]
      t0  == IF side = "Bid" THEN s.Bids ELSE s.Asks
      lvl == FindLevel(t0, price)
      u   == unlinkAlreadyInactive(os1, lvl, o)
      t1  == IF lvl = NilLevel THEN t0
             ELSE IF u.lvl.head = NULL THEN DeleteLevel(t0, price)
             ELSE [t0 EXCEPT ![price] = u.lvl]
      e   == Enqueue(s.rq, o)
  IN [ord   |-> IF lvl = NilLevel THEN os1 ELSE u.ord,
      Bids  |-> IF side = "Bid" THEN t1 ELSE s.Bids,
      Asks  |-> IF side = "Bid" THEN s.Asks ELSE t1,
      rq    |-> e.q,
      panic |-> IF e.ok THEN "none" ELSE "retire ring full"]

\* OrderBook.cancelOrder on the state s = [ord, Bids, Asks, rq, panic].
cancelOrder(s, price, o, side) ==
  LET os1 == [s.ord EXCEPT ![o].Status = "Inactive", ![o].retireEpoch = globalEpoch]
      t0  == IF side = "Bid" THEN s.Bids ELSE s.Asks
      lvl == FindLevel(t0, price)
      u   == unlinkAlreadyInactive(os1, lvl, o)
      t1  == IF lvl = NilLevel THEN t0
             ELSE IF u.lvl.head = NULL THEN DeleteLevel(t0, price)
             ELSE [t0 EXCEPT ![price] = u.lvl]
      e   == Enqueue(s.rq, o)
  IN [ord   |-> IF lvl = NilLevel THEN os1 ELSE u.ord,
      Bids  |-> IF side = "Bid" THEN t1 ELSE s.Bids,
      Asks  |-> IF side = "Bid" THEN s.Asks ELSE t1,
      rq    |-> e.q,
      panic |-> IF e.ok THEN "none" ELSE "retire ring full"]

Here == [ord |-> ord, Bids |-> Bids, Asks |-> Asks, rq |-> rq, panic |-> "none"]

\* One iteration of the matching loop for incoming order o against level best.
matchIteration(s, o, best) ==
  LET head  == best.head
      trade == min(s.ord[o].Qty, s.ord[head].Qty)
      os1   == [s.ord EXCEPT ![o].Qty = @ - trade]
      os2   == [os1 EXCEPT ![head].Qty = @ - trade]
      s1    == [s EXCEPT !.ord = os2]
      s2    == IF os2[head].Qty = 0
               THEN cancelOrder(s1, best.Price, head, IF s.ord[o].Side = "Bid" THEN "Ask" ELSE "Bid")
               ELSE s1
  IN [s |-> s2, trade |-> trade, head |-> head]

\* ------------------------------------------------------------------- state
Idle == [pc |-> "idle", o |-> NULL, filled |-> 0, min |-> 0, hits |-> <<>>,
         crossed |-> FALSE]
NoRet == [op |-> "none", o |-> NULL, qty |-> 0, hits |-> <<>>, crossed |-> FALSE]
RdIdle == [pc |-> "idle", e |-> 0, side |-> "Bid", last |-> NULL, price |-> NULL,
           n |-> NULL, held |-> {}, visited |-> <<>>, snaps |-> 0]
Snapshot == [ord |-> ord, Bids |-> Bids, Asks |-> Asks, rq |-> rq, pool |-> pool,
             reader |-> reader, rdpc |-> rd.pc, snaps |-> rd.snaps]

\* The goroutines that call Enqueue and Dequeue: position, locals, the stores
\* not yet visible to the other goroutine, and the last call's result.
PIdle == [pc |-> "idle", o |-> NULL, h |-> 0, t |-> 0, pend |-> {},
          done |-> FALSE, ok |-> FALSE, q0 |-> newRetireRing(1)]
CIdle == [pc |-> "idle", o |-> NULL, h |-> 0, t |-> 0, pend |-> {},
          done |-> FALSE, q0 |-> newRetireRing(1)]
NoWant == [lv |-> [k \in {} |-> NoLevel], made |-> [k \in Keys |-> 0]]

\* The state after construction, with a retire ring of the given capacity.
InitWith(pow2) ==
  /\ ord = [o \in Orders |-> ZeroOrder]
  /\ pool = NewOrderPool(PoolCap)
  /\ rq = newRetireRing(pow2)
  /\ pr = PIdle
  /\ co = CIdle
  /\ enqd = <<>>
  /\ deqd = <<>>
  /\ tree = NewTree
  /\ want = NoWant
  /\ Bids = NewRBTree
  /\ Asks = NewRBTree
  /\ LastSeq = 0
  /\ globalEpoch = 0
  /\ reader = 0
  /\ mt = Idle
  /\ rd = RdIdle
  /\ halted = "none"
  /\ ret = NoRet
  /\ pre = Snapshot
  /\ enqEpoch = [o \in Orders |-> 0]
  /\ qty0 = [o \in Orders |-> 0]

Init == InitWith(RingCap)

\* History: stamp the orders that this step retires to the ring.
StampEnq ==
  enqEpoch' = [o \in Orders |->
                 IF (\E i \in 1..Len(RingSeq(rq')) : RingSeq(rq')[i] = o) /\ ~InRing(o)
                 THEN globalEpoch ELSE enqEpoch[o]]

\* The limit of an incoming order crosses the best opposite price.
Crosses(side, price) ==
  LET best == bestOpposite(Bids, Asks, side)
  IN best # NilLevel /\ (IF side = "Bid" THEN best.Price <= price ELSE best.Price >= price)

\* ------------------------------------------------------------ caller set-up
\* globalEpoch.Store(e) before the first operation.
StoreEpoch(e) ==
  /\ halted = "none" /\ mt.pc = "idle" /\ rd.pc = "idle" /\ rd.snaps = 0
  /\ LastSeq = 0 /\ globalEpoch = 0
  /\ globalEpoch' = e
  /\ UNCHANGED <<ord, pool, rq, Bids, Asks, LastSeq, reader, mt, rd, halted, ret, pre,
                 enqEpoch, qty0, subVars>>

\* ------------------------------------------------------- matcher: placeOrder
\* placeOrder up to the matching loop: Get, populate, LastSeq, Market price,
\* FOK pre-check (and its rejection).
PlaceBegin(side, otype, price, qty) ==
  /\ halted = "none" /\ mt.pc = "idle"
  /\ pre' = Snapshot
  /\ LET seq == LastSeq + 1
         g   == Get(pool, ord)
         o   == g.o
     IN IF o = NULL
        THEN /\ halted' = "order pool exhausted"
             /\ ret' = NoRet
             /\ UNCHANGED <<ord, pool, rq, Bids, Asks, LastSeq, mt, enqEpoch, qty0>>
        ELSE LET os1 == [g.ord EXCEPT ![o] =
                           [ZeroOrder EXCEPT !.ID = seq, !.Side = side, !.Type = otype,
                                             !.Price = IF otype = "Market" THEN 0 ELSE price,
                                             !.Qty = qty, !.SeqID = seq, !.Status = "Active"]]
                 available == checkLiquidity(side, os1[o].Price, os1[o].Qty)
                 e == Enqueue(rq, o)
             IN /\ pool' = g.pool
                /\ LastSeq' = seq
                /\ qty0' = [qty0 EXCEPT ![o] = qty]
                /\ UNCHANGED <<Bids, Asks, halted>>
                /\ IF otype = "FOK" /\ available < os1[o].Qty
                   THEN /\ ord' = [os1 EXCEPT ![o].Status = "Inactive"]
                        /\ rq' = e.q
                        /\ mt' = Idle
                        /\ ret' = [op |-> "place", o |-> o, qty |-> qty, hits |-> <<>>,
                                   crossed |-> Crosses(side, os1[o].Price)]
                   ELSE /\ ord' = os1
                        /\ rq' = rq
                        /\ mt' = [Idle EXCEPT !.pc = "match", !.o = o,
                                              !.crossed = Crosses(side, os1[o].Price)]
                        /\ ret' = NoRet
                /\ StampEnq
  /\ UNCHANGED <<globalEpoch, reader, rd, subVars>>

\* One iteration of the loop of match: a trade against the head of the best
\* opposite level, and the retirement of that head when it is depleted.
MatchStep ==
  /\ halted = "none" /\ mt.pc = "match"
  /\ LET o    == mt.o
         best == bestOpposite(Bids, Asks, ord[o].Side)
     IN /\ ord[o].Qty > 0 /\ ~breaks(ord[o], best)
        /\ IF best.head = NULL
           THEN /\ halted' = "nil pointer dereference"
                /\ UNCHANGED <<ord, Bids, Asks, rq, mt>>
           ELSE LET r == matchIteration(Here, o, best)
                IN /\ ord' = r.s.ord
                   /\ Bids' = r.s.Bids
                   /\ Asks' = r.s.Asks
                   /\ rq' = r.s.rq
                   /\ halted' = r.s.panic
                   /\ mt' = [mt EXCEPT !.filled = @ + r.trade, !.hits = Append(@, r.head)]
  /\ StampEnq
  /\ UNCHANGED <<pool, LastSeq, globalEpoch, reader, rd, ret, pre, qty0, subVars>>

\* The loop of match has ended: record Filled, dispose of the leftover, return.
PlaceFinish ==
  /\ halted = "none" /\ mt.pc = "match"
  /\ LET o    == mt.o
         best == bestOpposite(Bids, Asks, ord[o].Side)
         os1  == [ord EXCEPT ![o].Filled = mt.filled]
         s1   == [Here EXCEPT !.ord = os1]
         rest == enqueue(s1, o)
         e    == Enqueue(rq, o)
         gone == [s1 EXCEPT !.ord = [os1 EXCEPT ![o].Status = "Inactive"], !.rq = e.q]
         s2   == CASE os1[o].Type = "Limit" -> IF os1[o].Qty > 0 THEN rest ELSE s1
                   [] os1[o].Type = "PostOnly" ->
                        IF mt.filled > 0 THEN gone
                        ELSE IF os1[o].Qty > 0 THEN rest ELSE s1
                   [] OTHER -> IF os1[o].Qty > 0 THEN gone ELSE s1
     IN /\ ~(ord[o].Qty > 0 /\ ~breaks(ord[o], best))
        /\ ord' = s2.ord
        /\ Bids' = s2.Bids
        /\ Asks' = s2.Asks
        /\ rq' = s2.rq
        /\ ret' = [op |-> "place", o |-> o, qty |-> qty0[o], hits |-> mt.hits,
                   crossed |-> mt.crossed]
  /\ mt' = Idle
  /\ StampEnq
  /\ UNCHANGED <<pool, LastSeq, globalEpoch, reader, rd, halted, pre, qty0, subVars>>

\* ------------------------------------------------------ matcher: cancelOrder
\* The caller cancels an order that is linked at (price, side).
CancelOrder(o) ==
  /\ halted = "none" /\ mt.pc = "idle"
  /\ \E side \in Sides :
       LET t == IF side = "Bid" THEN Bids ELSE Asks
       IN \E price \in DOMAIN t :
            /\ \E i \in 1..Len(Chain(ord, t[price])) : Chain(ord, t[price])[i] = o
            /\ LET s == cancelOrder(Here, price, o, side)
               IN /\ ord' = s.ord
                  /\ Bids' = s.Bids
                  /\ Asks' = s.Asks
                  /\ rq' = s.rq
                  /\ halted' = s.panic
                  /\ ret' = IF s.panic = "none"
                            THEN [NoRet EXCEPT !.op = "cancel", !.o = o]
                            ELSE NoRet
  /\ pre' = Snapshot
  /\ StampEnq
  /\ UNCHANGED <<pool, LastSeq, globalEpoch, reader, mt, rd, qty0, subVars>>

\* ------------------------------------------- matcher: advanceEpochAndReclaim
\* globalEpoch.Add(1)
AdvanceEpoch ==
  /\ halted = "none" /\ mt.pc = "idle" /\ globalEpoch < MaxEpoch
  /\ globalEpoch' = globalEpoch + 1
  /\ mt' = [Idle EXCEPT !.pc = "adv_min"]
  /\ ret' = NoRet
  /\ pre' = Snapshot
  /\ UNCHANGED <<ord, pool, rq, Bids, Asks, LastSeq, reader, rd, halted, enqEpoch, qty0, subVars>>

\* min := minReaderEpoch(rs...)
AdvanceMin ==
  /\ halted = "none" /\ mt.pc = "adv_min"
  /\ mt' = [mt EXCEPT !.pc = "adv_drain", !.min = minReaderEpoch(<<reader>>)]
  /\ UNCHANGED <<ord, pool, rq, Bids, Asks, LastSeq, globalEpoch, reader, rd, halted,
                 ret, pre, enqEpoch, qty0, subVars>>

\* One iteration of the drain loop.
ReclaimStep ==
  /\ halted = "none" /\ mt.pc = "adv_drain"
  /\ LET d == Dequeue(rq)
         o == d.o
     IN IF o = NULL
        THEN /\ mt' = Idle
             /\ ret' = [NoRet EXCEPT !.op = "advance"]
             /\ UNCHANGED <<ord, pool, rq>>
        ELSE IF mt.min = AllF \/ ord[o].retireEpoch < mt.min
        THEN /\ pool' = Put(pool, ord, o).pool
             /\ ord' = Put(pool, ord, o).ord
             /\ rq' = d.q
             /\ UNCHANGED <<mt, ret>>
        ELSE /\ rq' = Enqueue(d.q, o).q
             /\ mt' = Idle
             /\ ret' = [NoRet EXCEPT !.op = "advance"]
             /\ UNCHANGED <<ord, pool>>
  /\ UNCHANGED <<Bids, Asks, LastSeq, globalEpoch, reader, rd, halted, pre, enqEpoch, qty0, subVars>>

\* ------------------------------------------------ reader: SnapshotActiveIter
\* EnterRead, first half: globalEpoch.Load()
REnterLoad ==
  /\ halted = "none" /\ rd.pc = "idle" /\ rd.snaps < MaxSnaps
  /\ rd' = [rd EXCEPT !.pc = "enter", !.e = globalEpoch]
  /\ UNCHANGED <<ord, pool, rq, Bids, Asks, LastSeq, globalEpoch, reader, mt, halted,
                 ret, pre, enqEpoch, qty0, subVars>>

\* EnterRead, second half: r.epoch.Store(...)
REnterStore ==
  /\ halted = "none" /\ rd.pc = "enter"
  /\ reader' = rd.e
  /\ rd' = [rd EXCEPT !.pc = "level", !.side = "Bid", !.last = NULL]
  /\ UNCHANGED <<ord, pool, rq, Bids, Asks, LastSeq, globalEpoch, mt, halted,
                 ret, pre, enqEpoch, qty0, subVars>>

\* The traversal moves to the next level (bids descending, then asks
\* ascending) and reads its head; after the last ask level the walk is over.
RLevel ==
  /\ halted = "none" /\ rd.pc = "level"
  /\ LET t    == IF rd.side = "Bid" THEN Bids ELSE Asks
         todo == {p \in DOMAIN t : \/ rd.last = NULL
                                   \/ IF rd.side = "Bid" THEN p < rd.last ELSE p > rd.last}
         p    == IF rd.side = "Bid" THEN SetMax(todo) ELSE SetMin(todo)
     IN IF todo = {}
        THEN rd' = IF rd.side = "Bid"
                   THEN [rd EXCEPT !.side = "Ask", !.last = NULL]
                   ELSE [rd EXCEPT !.pc = "exit"]
        ELSE rd' = IF t[p].head = NULL
                   THEN [rd EXCEPT !.last = p]
                   ELSE [rd EXCEPT !.pc = "status", !.price = p, !.n = t[p].head,
                                   !.held = @ \cup {t[p].head}]
  /\ UNCHANGED <<ord, pool, rq, Bids, Asks, LastSeq, globalEpoch, reader, mt, halted,
                 ret, pre, enqEpoch, qty0, subVars>>

\* if n.Status == Active { visit(lvl.Price, n) }
RVisit ==
  /\ halted = "none" /\ rd.pc = "status"
  /\ rd' = [rd EXCEPT !.pc = "next",
                      !.visited = IF ord[rd.n].Status = "Active"
                                  THEN Append(@, <<rd.price, rd.n>>) ELSE @]
  /\ UNCHANGED <<ord, pool, rq, Bids, Asks, LastSeq, globalEpoch, reader, mt, halted,
                 ret, pre, enqEpoch, qty0, subVars>>

\* n = n.next
RNext ==
  /\ halted = "none" /\ rd.pc = "next"
  /\ rd' = IF ord[rd.n].next = NULL
           THEN [rd EXCEPT !.pc = "level", !.last = rd.price, !.n = NULL]
           ELSE [rd EXCEPT !.pc = "status", !.n = ord[rd.n].next,
                           !.held = @ \cup {ord[rd.n].next}]
  /\ UNCHANGED <<ord, pool, rq, Bids, Asks, LastSeq, globalEpoch, reader, mt, halted,
                 ret, pre, enqEpoch, qty0, subVars>>

\* ExitRead: r.epoch.Store(0); the reader keeps no pointer afterwards.
RExit ==
  /\ halted = "none" /\ rd.pc = "exit"
  /\ reader' = 0
  /\ rd' = [RdIdle EXCEPT !.snaps = rd.snaps + 1]
  /\ UNCHANGED <<ord, pool, rq, Bids, Asks, LastSeq, globalEpoch, mt, halted,
                 ret, pre, enqEpoch, qty0, subVars>>

\* ------------------------------------------ retireRing, goroutine by goroutine
\* Everything of the book but the ring.
bookVars == <<ord, pool, Bids, Asks, LastSeq, globalEpoch, reader, mt, rd, halted,
              ret, pre, enqEpoch, qty0>>

\* Enqueue up to its test: h := q.head; t := atomic.LoadUint64(&q.tail);
\* return false when full.
PLoad(o) ==
  /\ pr.pc = "idle" /\ Len(enqd) < RingOps
  /\ LET h == rq.head
         t == rq.tail
     IN IF h - t = Cardinality(DOMAIN rq.buf)
        THEN /\ pr' = [PIdle EXCEPT !.o = o, !.h = h, !.t = t, !.done = TRUE,
                                    !.ok = FALSE, !.q0 = rq]
             /\ UNCHANGED enqd
        ELSE /\ pr' = [PIdle EXCEPT !.pc = "store", !.o = o, !.h = h, !.t = t,
                                    !.pend = {"slot", "head"}, !.q0 = rq]
             /\ enqd' = Append(enqd, o)
  /\ UNCHANGED <<bookVars, rq, co, deqd, tree, want>>

\* q.buf[h&q.mask] = o and q.head = h + 1 are plain stores, and the consumer
\* reads both without a happens-before edge from them (the store of head is
\* not atomic): they become visible to the consumer in either order. Enqueue
\* has returned true when both are out.
PStoreSlot ==
  /\ pr.pc = "store" /\ "slot" \in pr.pend
  /\ rq' = [rq EXCEPT !.buf[BitAnd(pr.h, rq.mask)] = pr.o]
  /\ pr' = IF pr.pend = {"slot"}
           THEN [pr EXCEPT !.pc = "idle", !.pend = {}, !.done = TRUE, !.ok = TRUE]
           ELSE [pr EXCEPT !.pend = @ \ {"slot"}]
  /\ UNCHANGED <<bookVars, co, enqd, deqd, tree, want>>

PStoreHead ==
  /\ pr.pc = "store" /\ "head" \in pr.pend
  /\ rq' = [rq EXCEPT !.head = pr.h + 1]
  /\ pr' = IF pr.pend = {"head"}
           THEN [pr EXCEPT !.pc = "idle", !.pend = {}, !.done = TRUE, !.ok = TRUE]
           ELSE [pr EXCEPT !.pend = @ \ {"head"}]
  /\ UNCHANGED <<bookVars, co, enqd, deqd, tree, want>>

\* Dequeue up to its test: t := q.tail; h := atomic.LoadUint64(&q.head);
\* return nil when empty.
CLoad ==
  /\ co.pc = "idle"
  /\ LET t == rq.tail
         h == rq.head
     IN co' = IF t = h
              THEN [CIdle EXCEPT !.t = t, !.h = h, !.done = TRUE, !.q0 = rq]
              ELSE [CIdle EXCEPT !.pc = "read", !.t = t, !.h = h, !.q0 = rq]
  /\ UNCHANGED <<bookVars, rq, pr, enqd, deqd, tree, want>>

\* o := q.buf[t&q.mask]
CRead ==
  /\ co.pc = "read"
  /\ co' = [co EXCEPT !.pc = "store", !.o = rq.buf[BitAnd(co.t, rq.mask)],
                      !.pend = {"slot", "tail"}]
  /\ UNCHANGED <<bookVars, rq, pr, enqd, deqd, tree, want>>

\* q.buf[t&q.mask] = nil and q.tail = t + 1: plain stores again, visible to
\* the producer in either order. Dequeue has returned o when both are out.
CStoreSlot ==
  /\ co.pc = "store" /\ "slot" \in co.pend
  /\ rq' = [rq EXCEPT !.buf[BitAnd(co.t, rq.mask)] = NULL]
  /\ co' = IF co.pend = {"slot"}
           THEN [co EXCEPT !.pc = "idle", !.pend = {}, !.done = TRUE]
           ELSE [co EXCEPT !.pend = @ \ {"slot"}]
  /\ deqd' = IF co.pend = {"slot"} /\ co.o # NULL THEN Append(deqd, co.o) ELSE deqd
  /\ UNCHANGED <<bookVars, pr, enqd, tree, want>>

CStoreTail ==
  /\ co.pc = "store" /\ "tail" \in co.pend
  /\ rq' = [rq EXCEPT !.tail = co.t + 1]
  /\ co' = IF co.pend = {"tail"}
           THEN [co EXCEPT !.pc = "idle", !.pend = {}, !.done = TRUE]
           ELSE [co EXCEPT !.pend = @ \ {"tail"}]
  /\ deqd' = IF co.pend = {"tail"} /\ co.o # NULL THEN Append(deqd, co.o) ELSE deqd
  /\ UNCHANGED <<bookVars, pr, enqd, tree, want>>

\* ------------------------- retireRing under advanceEpochAndReclaim's Enqueue
\* advanceEpochAndReclaim, else branch: '_ = rq.Enqueue(o)' for the order o
\* that Dequeue has just returned and that is not yet safe. Enqueue up to its
\* test, run by the reclaimer; the result is discarded, so a full ring ends
\* the call without the order.
ReLoad ==
  /\ co.pc = "idle" /\ co.done /\ co.o # NULL /\ rq.head < MaxHead
  /\ LET h == rq.head
         t == rq.tail
     IN co' = IF h - t = Cardinality(DOMAIN rq.buf)
              THEN [CIdle EXCEPT !.q0 = rq]
              ELSE [CIdle EXCEPT !.pc = "restore", !.o = co.o, !.h = h, !.t = t,
                                 !.pend = {"slot", "head"}, !.q0 = rq]
  /\ deqd' = SubSeq(deqd, 1, Len(deqd) - 1)
  /\ UNCHANGED <<bookVars, rq, pr, enqd, tree, want>>

\* q.buf[h&q.mask] = o, by the reclaimer.
ReStoreSlot ==
  /\ co.pc = "restore" /\ "slot" \in co.pend
  /\ rq' = [rq EXCEPT !.buf[BitAnd(co.h, rq.mask)] = co.o]
  /\ co' = [co EXCEPT !.pend = @ \ {"slot"}]
  /\ UNCHANGED <<bookVars, pr, enqd, deqd, tree, want>>

\* q.head = h + 1, by the reclaimer; break.
ReStoreHead ==
  /\ co.pc = "restore" /\ co.pend = {"head"}
  /\ rq' = [rq EXCEPT !.head = co.h + 1]
  /\ co' = [CIdle EXCEPT !.q0 = co.q0]
  /\ UNCHANGED <<bookVars, pr, enqd, deqd, tree, want>>

\* ------------------------------------------------ retireRing, call by call
\* One goroutine calls Enqueue and Dequeue one after the other; pr and co hold
\* the result of the last call (the other is reset).
EnqueueCall(o) ==
  /\ Len(enqd) < RingOps
  /\ LET e == Enqueue(rq, o)
     IN /\ rq' = e.q
        /\ pr' = [PIdle EXCEPT !.o = o, !.done = TRUE, !.ok = e.ok, !.q0 = rq]
        /\ enqd' = IF e.ok THEN Append(enqd, o) ELSE enqd
  /\ co' = CIdle
  /\ UNCHANGED <<bookVars, deqd, tree, want>>

DequeueCall ==
  /\ LET d == Dequeue(rq)
     IN /\ rq' = d.q
        /\ co' = [CIdle EXCEPT !.o = d.o, !.done = TRUE, !.q0 = rq]
        /\ deqd' = IF d.o # NULL THEN Append(deqd, d.o) ELSE deqd
  /\ pr' = PIdle
  /\ UNCHANGED <<bookVars, enqd, tree, want>>

\* --------------------------------------------------- OrderPool, call by call
\* The caller takes a record from the pool.
PoolGet ==
  /\ LET g == Get(pool, ord)
     IN /\ pool' = g.pool
        /\ ord' = g.ord
        /\ ret' = [NoRet EXCEPT !.op = "get", !.o = g.o,
                                !.hits = IF ret.op = "put" THEN <<ret.o>> ELSE <<>>]
  /\ pre' = Snapshot
  /\ UNCHANGED <<rq, Bids, Asks, LastSeq, globalEpoch, reader, mt, rd, halted,
                 enqEpoch, qty0, subVars>>

\* The caller fills a record it holds, as placing, resting, filling and
\* retiring an order do.
PoolUse(o, side, otype) ==
  /\ ~InPool(o)
  /\ ord' = [ord EXCEPT ![o] =
               [ID |-> 1, Side |-> side, Type |-> otype, Price |-> MaxPrice,
                Qty |-> MaxQty, Filled |-> 1, SeqID |-> 1, Status |-> "Active",
                next |-> o, prev |-> o, retireEpoch |-> 1]]
  /\ ret' = NoRet
  /\ pre' = Snapshot
  /\ UNCHANGED <<pool, rq, Bids, Asks, LastSeq, globalEpoch, reader, mt, rd, halted,
                 enqEpoch, qty0, subVars>>

\* The caller gives a record back.
PoolPut(o) ==
  /\ LET p == Put(pool, ord, o)
     IN /\ pool' = p.pool
        /\ ord' = p.ord
  /\ ret' = [NoRet EXCEPT
               !.op = IF pool.top = Cardinality(DOMAIN pool.store) THEN "putfull" ELSE "put",
               !.o = o]
  /\ pre' = Snapshot
  /\ UNCHANGED <<rq, Bids, Asks, LastSeq, globalEpoch, reader, mt, rd, halted,
                 enqEpoch, qty0, subVars>>

\* ------------------------------------------------------ RBTree, call by call
\* UpsertLevel(p); the history keeps the level made for p if p was missing.
TreeUpsert(p) ==
  /\ p \in DOMAIN want.lv \/ want.made[p] < MaxGen
  /\ LET pl == <<p, want.made[p] + 1>>
     IN /\ tree' = rbUpsertLevel(tree, p, pl)
        /\ want' = IF p \in DOMAIN want.lv THEN want
                   ELSE [lv   |-> [k \in DOMAIN want.lv \cup {p} |->
                                     IF k = p THEN pl ELSE want.lv[k]],
                         made |-> [want.made EXCEPT ![p] = @ + 1]]
  /\ UNCHANGED <<bookVars, rq, pr, co, enqd, deqd>>

\* DeleteLevel(p)
TreeDelete(p) ==
  /\ tree' = rbDeleteLevel(tree, p)
  /\ want' = [want EXCEPT !.lv = [k \in DOMAIN want.lv \ {p} |-> want.lv[k]]]
  /\ UNCHANGED <<bookVars, rq, pr, co, enqd, deqd>>

\* ----------------------------------------------------------- specification
\* Spec: the matcher's book operations, over every side, type, price and
\* quantity of the bounds.
Place ==
  /\ LastSeq < MaxSeq
  /\ \E side \in Sides, otype \in Types, price \in Prices, qty \in Qtys :
       PlaceBegin(side, otype, price, qty)
Cancel == \E o \in Orders : CancelOrder(o)

Next ==
  \/ Place
  \/ MatchStep
  \/ PlaceFinish
  \/ Cancel

Spec == Init /\ [][Next]_vars

\* SpecEpoch: the matcher, the reclaimer and one snapshot reader, interleaved
\* step by step; placements are of one price and one quantity.
Seed == \E e \in SeedEpochs : StoreEpoch(e)
PlaceOne ==
  /\ LastSeq < EpochSeq
  /\ \E side \in Sides, otype \in Types : PlaceBegin(side, otype, 1, 1)

NextEpoch ==
  \/ Seed
  \/ PlaceOne
  \/ MatchStep
  \/ PlaceFinish
  \/ Cancel
  \/ AdvanceEpoch
  \/ AdvanceMin
  \/ ReclaimStep
  \/ REnterLoad
  \/ REnterStore
  \/ RLevel
  \/ RVisit
  \/ RNext
  \/ RExit

SpecEpoch == Init /\ [][NextEpoch]_vars

\* SpecSeeded: the operations of Spec, with or without a globalEpoch.Store
\* at start-up (main stores 100, the tests of the book store nothing).
NextSeeded ==
  \/ Seed
  \/ Place
  \/ MatchStep
  \/ PlaceFinish
  \/ Cancel

SpecSeeded == Init /\ [][NextSeeded]_vars

\* SpecSnap: the matcher, the reclaimer and one snapshot reader over two
\* prices: limit bids of quantity 1 (the matching loop has nothing to
\* iterate over), no start-up Store.
PlaceSnap ==
  /\ LastSeq < SnapSeq
  /\ \E price \in Prices : PlaceBegin("Bid", "Limit", price, 1)

AdvanceSnap == globalEpoch < SnapEpoch /\ AdvanceEpoch

NextSnap ==
  \/ PlaceSnap
  \/ PlaceFinish
  \/ Cancel
  \/ AdvanceSnap
  \/ AdvanceMin
  \/ ReclaimStep
  \/ REnterLoad
  \/ REnterStore
  \/ RLevel
  \/ RVisit
  \/ RNext
  \/ RExit

SpecSnap == Init /\ [][NextSnap]_vars

\* SpecFull: the book with a retire ring smaller than the pool and one more
\* placement than the pool holds, so that the ring fills and the pool runs out.
PlaceFull ==
  /\ LastSeq < FullSeq
  /\ \E side \in Sides, otype \in Types : PlaceBegin(side, otype, 1, 1)

NextFull ==
  \/ PlaceFull
  \/ MatchStep
  \/ PlaceFinish
  \/ Cancel

SpecFull == InitWith(Pow2(RingBits)) /\ [][NextFull]_vars

\* SpecRing: one goroutine calling Enqueue and one calling Dequeue, step by step.
Produce == \E o \in Orders : PLoad(o)

NextRing ==
  \/ Produce
  \/ PStoreSlot
  \/ PStoreHead
  \/ CLoad
  \/ CRead
  \/ CStoreSlot
  \/ CStoreTail

SpecRing == InitWith(Pow2(RingBits)) /\ [][NextRing]_vars

\* SpecRingSeq: Enqueue and Dequeue called one after the other.
EnqueueAny == \E o \in Orders : EnqueueCall(o)

NextRingSeq ==
  \/ EnqueueAny
  \/ DequeueCall

SpecRingSeq == InitWith(Pow2(RingBits)) /\ [][NextRingSeq]_vars

\* SpecReclaim: the matcher in Enqueue and the reclaimer in the drain loop of
\* advanceEpochAndReclaim (Dequeue, then Put or Enqueue), step by step, each
\* goroutine's stores taken in program order.
PStoreHeadLast == "slot" \notin pr.pend /\ PStoreHead
CStoreTailLast == "slot" \notin co.pend /\ CStoreTail
CLoadNext == rq.tail < MaxHead /\ CLoad

NextReclaim ==
  \/ Produce
  \/ PStoreSlot
  \/ PStoreHeadLast
  \/ CLoadNext
  \/ CRead
  \/ CStoreSlot
  \/ CStoreTailLast
  \/ ReLoad
  \/ ReStoreSlot
  \/ ReStoreHead

SpecReclaim == InitWith(Pow2(RingBits)) /\ [][NextReclaim]_vars

\* SpecPool: Get, Put and the caller's writes to the records it holds.
PoolUseAny == \E o \in Orders, side \in Sides : PoolUse(o, side, "PostOnly")
PoolPutAny == \E o \in Orders : PoolPut(o)

NextPool ==
  \/ PoolGet
  \/ PoolUseAny
  \/ PoolPutAny

SpecPool == Init /\ [][NextPool]_vars

\* SpecTree: UpsertLevel and DeleteLevel of any price, in any order.
TreeUpsertAny == \E p \in Keys : TreeUpsert(p)
TreeDeleteAny == \E p \in Keys : TreeDelete(p)

NextTree ==
  \/ TreeUpsertAny
  \/ TreeDeleteAny

SpecTree == Init /\ [][NextTree]_vars

\* ------------------------------------------------------------------ claims
\* The orders that were linked in some level when the last operation began.
RestingBefore == LinkedIn(pre.ord, pre.Bids) \cup LinkedIn(pre.ord, pre.Asks)

RECURSIVE SumQty(_, _)
SumQty(os, c) == IF c = <<>> THEN 0 ELSE os[Head(c)].Qty + SumQty(os, Tail(c))

Levels == {Bids[p] : p \in DOMAIN Bids} \cup {Asks[p] : p \in DOMAIN Asks}

\* C1: a FOK placement is all-or-nothing. When placeOrder returns, either
\* Filled equals the original quantity, or Filled = 0, Qty is the original
\* quantity, Status is Inactive and no resting order's quantity or linkage
\* has changed.
C1_FOKAllOrNothing ==
  (ret.op = "place" /\ ord[ret.o].Type = "FOK") =>
     \/ ord[ret.o].Filled = ret.qty
     \/ /\ ord[ret.o].Filled = 0
        /\ ord[ret.o].Qty = ret.qty
        /\ ord[ret.o].Status = "Inactive"
        /\ \A r \in RestingBefore :
             /\ ord[r].Qty = pre.ord[r].Qty
             /\ ord[r].next = pre.ord[r].next
             /\ ord[r].prev = pre.ord[r].prev

\* C2: a PostOnly placement whose limit crosses the best opposite price is
\* rejected without trading: the handle is Inactive with Filled = 0 and
\* Qty = the original quantity, it is in the RetireRing, and every resting
\* order and level is as it was before the placement.
C2_PostOnlyRejectNoTrade ==
  (ret.op = "place" /\ ord[ret.o].Type = "PostOnly" /\ ret.crossed) =>
     /\ ord[ret.o].Status = "Inactive"
     /\ ord[ret.o].Filled = 0
     /\ ord[ret.o].Qty = ret.qty
     /\ InRing(ret.o)
     /\ Bids = pre.Bids
     /\ Asks = pre.Asks
     /\ \A r \in RestingBefore : ord[r] = pre.ord[r]

\* C3: no order the reader has visited or holds a pointer to in its read
\* section is in the pool (from where Get hands it out again) before the
\* reader's ExitRead, whatever the initial globalEpoch.
C3_NoReclaimUnderReader == \A o \in rd.held : ~InPool(o)

\* C4: an order retired to the ring while globalEpoch = E is not put back into
\* the pool by advanceEpochAndReclaim while the reader's epoch is non-zero and
\* <= E (the reader being registered with that epoch from the call on).
C4_RetireEpochRule ==
  [][\A o \in Orders :
       (~InPool(o) /\ InPool(o)') =>
          ~(reader # 0 /\ reader <= enqEpoch[o] /\ pre.reader = reader)]_vars

\* C5: after every operation returns, every level present in either index has
\* TotalQty equal to the sum of the remaining Qty of the orders linked in it.
C5_TotalQtyIsSum ==
  mt.pc = "idle" => \A lvl \in Levels : lvl.TotalQty = SumQty(ord, Chain(ord, lvl))

\* C6: when an incoming Limit order exactly fills against a resting order of
\* equal quantity at a crossing price, both handles end with Qty = 0, both
\* are Inactive, both are in the RetireRing, and neither is linked in a level.
C6_ExactFillBothRetired ==
  LET o == ret.o
      h == bestOpposite(pre.Bids, pre.Asks, ord[o].Side).head
  IN (/\ ret.op = "place" /\ ord[o].Type = "Limit" /\ ret.crossed
      /\ pre.ord[h].Qty = ret.qty) =>
        \A x \in {o, h} :
          /\ ord[x].Qty = 0
          /\ ord[x].Status = "Inactive"
          /\ InRing(x)
          /\ x \notin Linked

\* C7: the handle o returned by placeOrder(..., qty, ...) has
\* o.Filled + o.Qty = qty and o.Qty >= 0 at return, for every order type.
C7_FilledPlusQty ==
  ret.op = "place" =>
     /\ ord[ret.o].Filled + ord[ret.o].Qty = ret.qty
     /\ ord[ret.o].Qty >= 0

\* C7 witness: a placement returned partially filled.
C7_Witness ==
  ret.op = "place" /\ ord[ret.o].Filled > 0 /\ ord[ret.o].Qty > 0

\* C8: every trade adds its quantity to the Filled of the resting order as
\* well, so every placed order has Filled + Qty = its original quantity.
C8_EveryOrderConserves ==
  mt.pc = "idle" =>
     \A o \in Orders : qty0[o] > 0 => ord[o].Filled + ord[o].Qty = qty0[o]

\* C9: after every placeOrder or cancelOrder returns, if both indexes are
\* non-empty then the highest bid price is strictly below the lowest ask price.
C9_BookNotCrossed ==
  (ret.op \in {"place", "cancel"} /\ DOMAIN Bids # {} /\ DOMAIN Asks # {}) =>
     SetMax(DOMAIN Bids) < SetMin(DOMAIN Asks)

\* C9 witness: a placement traded, rested its remainder, and both sides are
\* populated.
C9_Witness ==
  /\ ret.op = "place" /\ ord[ret.o].Filled > 0 /\ ret.o \in Linked
  /\ DOMAIN Bids # {} /\ DOMAIN Asks # {}

\* C10: a resting order r trades with the incoming order only when no linked
\* order of r's side has a strictly better price and none at r's price was
\* inserted earlier (lower sequence) and is still linked.
C10_PriceTimePriority ==
  [][\A r \in Orders :
       (mt.pc = "match" /\ r # mt.o /\ ord'[r].Qty < ord[r].Qty) =>
          /\ r \in Linked
          /\ ord[r].Side # ord[mt.o].Side
          /\ \A q \in Linked \ {r} :
               ord[q].Side = ord[r].Side =>
                  /\ IF ord[r].Side = "Ask" THEN ord[q].Price >= ord[r].Price
                                            ELSE ord[q].Price <= ord[r].Price
                  /\ ord[q].Price = ord[r].Price => ord[q].SeqID > ord[r].SeqID]_vars

\* C10 witness: a placement traded against the first of two orders at one
\* price; a later order of that price and a worse-priced level stay linked.
C10_Witness ==
  /\ ret.op = "place" /\ Len(ret.hits) >= 1
  /\ \E q \in Linked : /\ ord[q].Side = ord[ret.hits[1]].Side
                       /\ ord[q].Price = ord[ret.hits[1]].Price
                       /\ ord[q].SeqID > ord[ret.hits[1]].SeqID

\* The orders of the handles a ring holds.
RingSet(q) == {RingSeq(q)[i] : i \in 1..Len(RingSeq(q))}

\* The opposite index of a side, in the state when the last operation began.
PreOpposite(side) == IF side = "Bid" THEN pre.Asks ELSE pre.Bids

\* C11: a non-Market incoming order never trades through its limit (a bid
\* trades only against asks priced <= its limit, an ask only against bids
\* priced >= its limit); a Market order has price 0, trades against the best
\* opposite level whatever its price, and stops only when the opposite side
\* is empty or it is filled.
C11_NoTradeThrough ==
  [][/\ \A r \in Orders :
          (mt.pc = "match" /\ r # mt.o /\ ord'[r].Qty < ord[r].Qty) =>
             /\ ord[mt.o].Type # "Market" =>
                  IF ord[mt.o].Side = "Bid" THEN ord[r].Price <= ord[mt.o].Price
                                            ELSE ord[r].Price >= ord[mt.o].Price
             /\ ord[mt.o].Type = "Market" =>
                  /\ ord[mt.o].Price = 0
                  /\ ord[r].Price = bestOpposite(Bids, Asks, ord[mt.o].Side).Price
     /\ (mt.pc = "match" /\ mt'.pc = "idle" /\ ord[mt.o].Type = "Market"
         /\ ord'[mt.o].Qty > 0) =>
           bestOpposite(Bids', Asks', ord[mt.o].Side) = NilLevel]_vars

\* C11 witness: a limited order traded, kept a remainder, and left a worse
\* priced opposite level untouched.
C11_Witness ==
  /\ ret.op = "place" /\ ord[ret.o].Type \in {"Limit", "IOC"}
  /\ Len(ret.hits) >= 1 /\ ord[ret.o].Qty > 0
  /\ bestOpposite(Bids, Asks, ord[ret.o].Side) # NilLevel

\* C12: when advanceEpochAndReclaim is called with the reader outside a read
\* section (and the reader starts none during the call), the ring is empty
\* afterwards and every order that was in it is in the pool; this includes an
\* order an earlier call held back for a reader that has exited since.
C12_DrainsWhenNoReader ==
  (/\ ret.op = "advance" /\ mt.pc = "idle"
   /\ pre.reader = 0 /\ pre.rdpc = "idle" /\ rd.pc = "idle" /\ rd.snaps = pre.snaps) =>
     /\ rq.head = rq.tail
     /\ \A o \in RingSet(pre.rq) : InPool(o)

\* C12 witness: the call released an order that an earlier call had held
\* back, after the reader's exit.
C12_Witness ==
  /\ ret.op = "advance" /\ mt.pc = "idle"
  /\ pre.reader = 0 /\ pre.rdpc = "idle" /\ rd.pc = "idle" /\ rd.snaps = pre.snaps
  /\ rd.snaps >= 1
  /\ \E o \in RingSet(pre.rq) : enqEpoch[o] + 2 <= globalEpoch /\ InPool(o)

\* C12 as stated: the reader's epoch is 0 at the moment of the call, whatever
\* the reader does while the call runs; then the ring is empty afterwards and
\* every order that was in it is in the pool.
C12_DrainsIfZeroAtCall ==
  (ret.op = "advance" /\ mt.pc = "idle" /\ pre.reader = 0) =>
     /\ rq.head = rq.tail
     /\ \A o \in RingSet(pre.rq) : InPool(o)

\* C13: a retirement that finds the ring full halts the engine, on every
\* retirement path: while the engine runs, every retired (Inactive) order is
\* in the ring or back in the pool.
C13_NoSilentDrop ==
  (halted = "none" /\ mt.pc = "idle") =>
     \A o \in Orders :
        (qty0[o] > 0 /\ ord[o].Status = "Inactive") => InRing(o) \/ InPool(o)

\* C14: a Market or IOC placement against an empty opposite side returns
\* Filled = 0, Qty = the original quantity, Status = Inactive, the handle is in
\* the RetireRing, and both indexes are as before.
C14_EmptyOppositeRetires ==
  (/\ ret.op = "place" /\ ord[ret.o].Type \in {"Market", "IOC"}
   /\ DOMAIN PreOpposite(ord[ret.o].Side) = {}) =>
     /\ ord[ret.o].Filled = 0
     /\ ord[ret.o].Qty = ret.qty
     /\ ord[ret.o].Status = "Inactive"
     /\ InRing(ret.o)
     /\ Bids = pre.Bids
     /\ Asks = pre.Asks

\* The opposite orders marketable against the limit of the order returned last.
PreMarketable ==
  {r \in LinkedIn(pre.ord, PreOpposite(ord[ret.o].Side)) :
     IF ord[ret.o].Side = "Bid" THEN pre.ord[r].Price <= ord[ret.o].Price
                                ELSE pre.ord[r].Price >= ord[ret.o].Price}

RECURSIVE SumOver(_, _)
SumOver(os, S) ==
  IF S = {} THEN 0
  ELSE LET r == CHOOSE x \in S : TRUE IN os[r].Qty + SumOver(os, S \ {r})

\* C15: a FOK placement whose quantity equals the sum of the remaining
\* quantities of all opposite orders marketable against its limit is filled
\* completely (Filled = quantity, Qty = 0); exactly those orders are depleted
\* and unlinked, every other resting order is as before.
C15_FOKExactLiquidity ==
  (/\ ret.op = "place" /\ ord[ret.o].Type = "FOK"
   /\ ret.qty = SumOver(pre.ord, PreMarketable)) =>
     /\ ord[ret.o].Filled = ret.qty
     /\ ord[ret.o].Qty = 0
     /\ \A r \in PreMarketable : ord[r].Qty = 0 /\ r \notin Linked
     /\ \A r \in RestingBefore \ PreMarketable : ord[r] = pre.ord[r]

\* C15 witness: such a FOK was placed against an order that an earlier trade
\* had partially filled.
C15_Witness ==
  /\ ret.op = "place" /\ ord[ret.o].Type = "FOK"
  /\ ret.qty = SumOver(pre.ord, PreMarketable)
  /\ \E r \in PreMarketable : pre.ord[r].Qty < qty0[r]

\* C16: with one goroutine in Enqueue and one in Dequeue, the non-nil handles
\* Dequeue returned are a prefix of the handles Enqueue accepted, in the same
\* order, none is lost once the ring is empty and both are idle, and
\* 0 <= head - tail <= capacity.
C16_RingFifo ==
  /\ IsPrefix(deqd, enqd)
  /\ (pr.pc = "idle" /\ co.pc = "idle" /\ rq.head = rq.tail) => deqd = enqd
  /\ 0 <= rq.head - rq.tail
  /\ rq.head - rq.tail <= Pow2(RingBits)

\* C17: Enqueue returns false exactly when head - tail equals the capacity,
\* Dequeue returns nil exactly when head = tail, and either then leaves
\* buffer, head and tail as they were.
C17_RingRefusals ==
  /\ pr.done => /\ (~pr.ok) <=> (pr.q0.head - pr.q0.tail = Pow2(RingBits))
                /\ (~pr.ok) => rq = pr.q0
  /\ co.done => /\ (co.o = NULL) <=> (co.q0.head = co.q0.tail)
                /\ (co.o = NULL) => rq = co.q0

\* C17 witness: Enqueue was refused by a full ring whose counters have moved
\* past the first lap.
C17_Witness == pr.done /\ ~pr.ok /\ Len(deqd) >= 1

\* C18: Get after Put(o) returns o with every field zero but Status = Active,
\* whatever o held; Get returns nil exactly when the pool is exhausted (and
\* changes nothing); Put on a full pool changes nothing; 0 <= top <= capacity.
C18_PoolRoundTrip ==
  /\ 0 <= pool.top /\ pool.top <= PoolCap
  /\ ret.op = "get" =>
       /\ (ret.o = NULL) <=> (pre.pool.top = 0)
       /\ ret.o = NULL => pool = pre.pool /\ ord = pre.ord
       /\ ret.o # NULL => ord[ret.o] = [ZeroOrder EXCEPT !.Status = "Active"]
       /\ ret.hits # <<>> => ret.o = ret.hits[1]
  /\ ret.op = "putfull" => pool = pre.pool /\ ord = pre.ord

\* C18 witness: Get returned the record that was put just before, which held
\* an order's fields.
C18_Witness ==
  /\ ret.op = "get" /\ ret.hits # <<>> /\ ret.o # NULL
  /\ pre.ord[ret.o].ID # 0 /\ pre.ord[ret.o].Qty > 0 /\ pre.ord[ret.o].retireEpoch # 0

\* The prices of a set, ascending.
RECURSIVE Ascending(_)
Ascending(S) == IF S = {} THEN <<>> ELSE <<SetMin(S)>> \o Ascending(S \ {SetMin(S)})

\* C19: after any sequence of UpsertLevel and DeleteLevel, ascending traversal
\* yields the levels of exactly the prices upserted and not deleted since, in
\* strictly increasing price order; MinLevel and MaxLevel are its first and
\* last (nil when empty); FindLevel(p) and a repeated UpsertLevel(p) return
\* the level made when p was inserted; Size is the number of prices.
C19_TreeMatchesKeys ==
  LET present == DOMAIN want.lv
      keys    == Ascending(present)
  IN /\ ForEachAscending(tree) = [i \in 1..Len(keys) |-> want.lv[keys[i]]]
     /\ \A i \in 1..Len(keys) : want.lv[keys[i]][1] = keys[i]
     /\ \A i \in 1..(Len(keys) - 1) : keys[i] < keys[i + 1]
     /\ rbMinLevel(tree) = IF present = {} THEN NoLevel ELSE want.lv[SetMin(present)]
     /\ rbMaxLevel(tree) = IF present = {} THEN NoLevel ELSE want.lv[SetMax(present)]
     /\ \A p \in Keys :
          rbFindLevel(tree, p) = IF p \in present THEN want.lv[p] ELSE NoLevel
     /\ \A p \in present : rbUpsertResult(tree, p, NoLevel) = want.lv[p]
     /\ tree.size = Cardinality(present)

\* C19 witness: four prices are present, one of them inserted anew after its
\* deletion, and another price is deleted.
C19_Witness ==
  /\ Cardinality(DOMAIN want.lv) >= 4
  /\ \E k \in DOMAIN want.lv : want.made[k] = 2
  /\ \E k \in Keys \ DOMAIN want.lv : want.made[k] >= 1

\* C20: after every operation returns, every order reachable from a level's
\* head by next pointers is Active with Qty > 0.
C20_LinkedAreActive ==
  mt.pc = "idle" => \A o \in Linked : ord[o].Status = "Active" /\ ord[o].Qty > 0

\* C20 witness: a resting order was partially filled and stays linked while
\* a depleted or cancelled one is in the ring.
C20_Witness ==
  /\ mt.pc = "idle" /\ ret.op = "place"
  /\ \E o \in Linked : ord[o].Qty < qty0[o]
  /\ \E r \in Orders : InRing(r) /\ ord[r].Qty = 0

\* C25: after every placeOrder, cancelOrder and advanceEpochAndReclaim
\* returns, every order held in the RetireRing is Inactive, has
\* retireEpoch <= globalEpoch, and is linked in no level.
C25_RingHoldsRetired ==
  (halted = "none" /\ mt.pc = "idle") =>
     \A o \in RingSet(rq) :
        /\ o # NULL
        /\ ord[o].Status = "Inactive"
        /\ ord[o].retireEpoch <= globalEpoch
        /\ o \notin Linked

\* C25 witness: advanceEpochAndReclaim returned and left in the ring an
\* order that cancelOrder had stamped, beside a resting order.
C25_Witness ==
  /\ ret.op = "advance" /\ mt.pc = "idle"
  /\ \E o \in RingSet(rq) : ord[o].retireEpoch >= 1
  /\ Linked # {}

\* The index (price -> level) of each side, with its side.
Indexes == {Bids, Asks}

\* C30: no empty level survives an operation: every level present in the bid
\* or ask index has a non-nil head and tail, its orders form a consistent
\* doubly-linked list from head to tail in insertion order, and the matching
\* loop never reads Qty from a nil head.
C30_NoEmptyLevel ==
  /\ halted # "nil pointer dereference"
  /\ (halted = "none" /\ mt.pc = "idle") =>
       \A t \in Indexes : \A p \in DOMAIN t :
          LET c == Chain(ord, t[p])
          IN /\ t[p].Price = p
             /\ t[p].head # NULL /\ t[p].tail # NULL
             /\ c[1] = t[p].head /\ c[Len(c)] = t[p].tail
             /\ ord[c[1]].prev = NULL /\ ord[c[Len(c)]].next = NULL
             /\ \A i \in 1..(Len(c) - 1) :
                  /\ ord[c[i + 1]].prev = c[i]
                  /\ ord[c[i]].SeqID < ord[c[i + 1]].SeqID

\* C30 witness: cancelOrder removed the middle order of a level of three,
\* and the level stays with two linked orders.
C30_Witness ==
  /\ ret.op = "cancel" /\ mt.pc = "idle"
  /\ \E t \in Indexes : \E p \in DOMAIN t :
        /\ Len(Chain(ord, t[p])) = 2
        /\ ord[Chain(ord, t[p])[1]].SeqID < ord[ret.o].SeqID
        /\ ord[ret.o].SeqID < ord[Chain(ord, t[p])[2]].SeqID
        /\ ord[ret.o].Price = p

\* How many times record o is held in the pool's free stack, in the ring, and
\* in the chains of the levels.
TimesInPool(o) == Cardinality({i \in 0..(pool.top - 1) : pool.store[i] = o})
TimesInRing(o) == Cardinality({i \in 1..Len(RingSeq(rq)) : RingSeq(rq)[i] = o})
TimesLinked(o) ==
  Cardinality({<<side, p, i>> \in Sides \X Prices \X (1..PoolCap) :
                 LET t == IF side = "Bid" THEN Bids ELSE Asks
                 IN /\ p \in DOMAIN t
                    /\ i <= Len(Chain(ord, t[p]))
                    /\ Chain(ord, t[p])[i] = o})

\* C29: after every operation returns, each preallocated record is in exactly
\* one place: free in the pool, linked in exactly one level (and Active), or
\* held once in the RetireRing (and Inactive); none is lost, none appears
\* twice.
C29_RecordsConserved ==
  (halted = "none" /\ mt.pc = "idle") =>
     \A o \in Orders :
        /\ TimesInPool(o) + TimesLinked(o) + TimesInRing(o) = 1
        /\ TimesLinked(o) = 1 => ord[o].Status = "Active"
        /\ TimesInRing(o) = 1 => ord[o].Status = "Inactive"

\* A sequence without the entries equal to o.
RECURSIVE Without(_, _)
Without(c, o) ==
  IF c = <<>> THEN <<>>
  ELSE IF Head(c) = o THEN Without(Tail(c), o) ELSE <<Head(c)>> \o Without(Tail(c), o)

\* An order record but for its links.
Unlinked(r) == [r EXCEPT !.next = NULL, !.prev = NULL]

\* C26: cancelOrder of an order linked at (price, side) removes exactly that
\* order: it is Inactive with retireEpoch = globalEpoch and is the newest entry
\* of the RetireRing; the other orders of the level keep their order and
\* their fields; TotalQty drops by the order's remaining Qty; the level leaves
\* the index exactly when it became empty; every other level, the opposite
\* side and the pool are unchanged.
C26_CancelRemovesExactlyOne ==
  ret.op = "cancel" =>
    LET o     == ret.o
        side  == pre.ord[o].Side
        price == pre.ord[o].Price
        t0    == IF side = "Bid" THEN pre.Bids ELSE pre.Asks
        t     == IF side = "Bid" THEN Bids ELSE Asks
        c0    == Chain(pre.ord, t0[price])
    IN /\ ord[o].Status = "Inactive"
       /\ ord[o].retireEpoch = globalEpoch
       /\ ord[o].Qty = pre.ord[o].Qty /\ ord[o].Filled = pre.ord[o].Filled
       /\ RingSeq(rq) = Append(RingSeq(pre.rq), o)
       /\ o \notin Linked
       /\ (price \in DOMAIN t) <=> (Len(c0) > 1)
       /\ price \in DOMAIN t =>
            /\ Chain(ord, t[price]) = Without(c0, o)
            /\ t[price].TotalQty = t0[price].TotalQty - pre.ord[o].Qty
       /\ DOMAIN t \ {price} = DOMAIN t0 \ {price}
       /\ \A p \in DOMAIN t \ {price} : t[p] = t0[p]
       /\ IF side = "Bid" THEN Asks = pre.Asks ELSE Bids = pre.Bids
       /\ \A r \in Orders \ {o} :
            IF \E i \in 1..Len(c0) : c0[i] = r
            THEN Unlinked(ord[r]) = Unlinked(pre.ord[r])
            ELSE ord[r] = pre.ord[r]
       /\ pool = pre.pool

\* C26 witness: a partially filled order was cancelled at a seeded epoch out
\* of a level that keeps another order.
C26_Witness ==
  /\ ret.op = "cancel" /\ globalEpoch >= 1
  /\ pre.ord[ret.o].Qty < qty0[ret.o]
  /\ LET t == IF pre.ord[ret.o].Side = "Bid" THEN Bids ELSE Asks
     IN /\ pre.ord[ret.o].Price \in DOMAIN t
        /\ t[pre.ord[ret.o].Price].TotalQty >= 1

\* The reader is between the completion of EnterRead and ExitRead.
InRead == rd.pc \in {"level", "status", "next", "exit"}

\* The epoch slot holds the value EnterRead loaded from globalEpoch while the
\* reader is in its read section, and 0 outside of it.
SlotTracksLoad ==
  /\ InRead => reader = rd.e /\ reader <= globalEpoch
  /\ ~InRead => reader = 0

\* globalEpoch never decreases, and globalEpoch.Add(1) raises it by exactly 1.
EpochSteps ==
  [][/\ globalEpoch' >= globalEpoch
     /\ (mt.pc = "idle" /\ mt'.pc = "adv_min") => globalEpoch' = globalEpoch + 1]_vars

\* C28: from the completion of EnterRead until ExitRead the reader's epoch
\* slot is non-zero (minReaderEpoch counts it as reading) and equals a value
\* that globalEpoch held during EnterRead; after ExitRead it is 0.
C28_ReaderRegistered ==
  /\ SlotTracksLoad
  /\ InRead => reader # 0 /\ minReaderEpoch(<<reader>>) = reader

\* The positions of o in the sequence c.
PosIn(c, o) == {i \in 1..Len(c) : c[i] = o}

\* C24: advanceEpochAndReclaim preserves the FIFO order of the RetireRing:
\* the orders that remain in the ring after a call are in the same relative
\* order as before the call, so no order that was behind an unsafe item is
\* ahead of it afterwards.
C24_ReclaimKeepsFifo ==
  ret.op = "advance" =>
    LET before == RingSeq(pre.rq)
        after  == RingSeq(rq)
    IN \A i, j \in 1..Len(after) :
         i < j => \E a \in PosIn(before, after[i]), b \in PosIn(before, after[j]) : a < b

\* C23: after the matcher has unlinked an order o from its level, a reader
\* positioned on o that reads o.next obtains the successor o had (null only
\* if o had none), so that the walk goes on to the orders behind o.
C23_NextSurvivesUnlink ==
  (ret.op = "cancel" /\ rd.pc \in {"status", "next"} /\ rd.n = ret.o) =>
     (pre.ord[ret.o].next # NULL => ord[ret.o].next = pre.ord[ret.o].next)

\* The state shows that the record m was handed out by the pool once only,
\* for the third order: one of the three records is untouched, and another,
\* n, carries the second order, still linked, although it was retired before
\* (at an epoch >= 1), so that n carried the first order as well.
HandedOutOnce(m) ==
  /\ ord[m].SeqID = 3
  /\ \E n, k \in Orders :
       /\ n # m /\ ord[n].SeqID = 2 /\ ord[n].Status = "Active" /\ n \in Linked
       /\ enqEpoch[n] >= 1
       /\ k \notin {m, n} /\ ord[k] = ZeroOrder

\* C21: every call visit(price, o) of SnapshotActiveIter is for an order that
\* was Active and linked in the level of that price at some moment of the
\* walk. An order is linked only in the level of its own Price, so a visited
\* order whose record never held another order has the price it was visited at.
C21_VisitedWereLinked ==
  \A i \in 1..Len(rd.visited) :
     HandedOutOnce(rd.visited[i][2]) => ord[rd.visited[i][2]].Price = rd.visited[i][1]

\* How many entries of the sequence c are o.
CountIn(c, o) == Cardinality(PosIn(c, o))

\* C27: the matcher enqueues and the reclaimer drains the RetireRing side by
\* side without losing or duplicating a retired order: whenever both are
\* between calls, every order the matcher's Enqueue accepted has been taken
\* out for the pool or is held in the ring, as many times as it was accepted.
C27_NoLossNoDup ==
  (pr.pc = "idle" /\ co.pc = "idle") =>
     \A o \in Orders :
        CountIn(enqd, o) = CountIn(deqd, o) + CountIn(RingSeq(rq), o)

\* The trees UpsertLevel(p) goes through from the current tree.
UpsertTrailOf(p) == rbUpsertTrail(tree, p, <<p, want.made[p] + 1>>)

\* The trail ends in the tree the whole call leaves.
TrailEndsInResult ==
  \A p \in Keys : Cur(UpsertTrailOf(p)) = rbUpsertLevel(tree, p, <<p, want.made[p] + 1>>)

\* C22: at every intermediate step (each pointer write) of UpsertLevel,
\* rotations and fix-ups included, every (price, level) that is in the index
\* before and after the call can be reached from the root through left and
\* right child pointers.
C22_ReachableThroughout ==
  \A p \in Keys \ DOMAIN want.lv :
     \A i \in 1..Len(UpsertTrailOf(p)) :
        \A k \in DOMAIN want.lv :
           /\ k \in FromRoot(UpsertTrailOf(p)[i])
           /\ UpsertTrailOf(p)[i].node[k].level = want.lv[k]

====
